---- MODULE Spec2Model ----
(***************************************************************************)
(* Model of src/main.py: DependencyResolver, the resolver of the direct    *)
(* dependencies of one package from a Debian-style Packages index.         *)
(*                                                                         *)
(* Text.  A Python str is a sequence of tokens.  A token is one character  *)
(* ("x", ",", " ", "\n", ...) or one of the capitalised words "Package",   *)
(* "Version", "Depends", "Pre".  No character token occurs inside a word,  *)
(* no word is a prefix of another and capitals occur only at the start of  *)
(* a word, so a text has one tokenisation and `a in b`, startswith, split  *)
(* and replace on token sequences agree with the same operations on the    *)
(* characters.                                                             *)
(*                                                                         *)
(* Optional[T].  None is <<>> and a value v is <<v>>.                      *)
(***************************************************************************)
EXTENDS Integers, Sequences, FiniteSets, TLC

VARIABLES pc, config, net, packages_content, package_info, depends_content,
          dependencies, returned, raised, fetches, trace

vars == <<pc, config, net, packages_content, package_info, depends_content,
          dependencies, returned, raised, fetches, trace>>

\* Longest Depends expression handed directly to _parse_depends.
MaxLen == 5
\* Most stanzas in an index text.
MaxStanzas == 2
\* Most lines after the header of a stanza handed directly to _extract_dependencies.
MaxDepLines == 2

None == <<>>
Some(v) == <<v>>

(***************************************************************************)
(* Python built-ins on str                                                 *)
(***************************************************************************)
Max(S) == CHOOSE m \in S : \A n \in S : n <= m
Min(S) == CHOOSE m \in S : \A n \in S : m <= n

\* str.isspace of one token; also the class \s of re.
Whitespace == {" ", "\t", "\n"}

\* Tokens all of whose characters are in the class [a-zA-Z0-9+\-\.].
NameChars == {"x", "y", "1", "2", "+", "-", ".", "Package", "Version", "Depends", "Pre"}

Drop(s, n) == SubSeq(s, n + 1, Len(s))

\* s.startswith(p)
StartsWith(s, p) == Len(p) <= Len(s) /\ SubSeq(s, 1, Len(p)) = p

\* s.find(p) + 1: the first index at which p occurs in s, 0 when there is none.
Find(s, p) ==
    LET at == {i \in 1..(Len(s) - Len(p) + 1) : SubSeq(s, i, i + Len(p) - 1) = p}
    IN IF at = {} THEN 0 ELSE Min(at)

\* p in s
Contains(s, p) == p = <<>> \/ Find(s, p) # 0

\* s.split(sep), sep not empty: cut at the leftmost occurrences, left to right.
RECURSIVE Split(_, _)
Split(s, sep) ==
    LET i == Find(s, sep)
    IN IF i = 0 THEN <<s>>
       ELSE <<SubSeq(s, 1, i - 1)>> \o Split(Drop(s, i + Len(sep) - 1), sep)

\* s.replace(old, ''): every occurrence of old removed, leftmost first.
RECURSIVE Replace(_, _)
Replace(s, old) ==
    LET i == Find(s, old)
    IN IF i = 0 THEN s
       ELSE SubSeq(s, 1, i - 1) \o Replace(Drop(s, i + Len(old) - 1), old)

\* s.lstrip(), s.rstrip(), s.strip()
RECURSIVE LStrip(_)
LStrip(s) == IF s # <<>> /\ Head(s) \in Whitespace THEN LStrip(Tail(s)) ELSE s
RECURSIVE RStrip(_)
RStrip(s) ==
    IF s # <<>> /\ s[Len(s)] \in Whitespace THEN RStrip(SubSeq(s, 1, Len(s) - 1)) ELSE s
Strip(s) == RStrip(LStrip(s))

\* x in list
InList(x, list) == \E i \in 1..Len(list) : list[i] = x

(***************************************************************************)
(* The two regular expressions of _parse_depends                           *)
(***************************************************************************)
\* Length of the run of tokens of class S that starts at index j of s.
RECURSIVE RunLen(_, _, _)
RunLen(s, j, S) == IF j <= Len(s) /\ s[j] \in S THEN 1 + RunLen(s, j + 1, S) ELSE 0

\* The lookahead body [^(]*\) matches at index j: a ")" lies ahead with no "("
\* between j and it.
LookaheadCloses(s, j) ==
    \E m \in j..Len(s) : s[m] = ")" /\ \A n \in j..(m - 1) : s[n] # "("

\* ,\s*(?![^(]*\)) tried at index i: the length of the match (the comma and the
\* longest run of whitespace after which the negative lookahead succeeds; \s* is
\* greedy and gives back), 0 when the pattern does not match at i.
CommaMatchLen(s, i) ==
    IF s[i] # "," THEN 0
    ELSE LET ks == {k \in 0..RunLen(s, i + 1, Whitespace) : ~LookaheadCloses(s, i + 1 + k)}
         IN IF ks = {} THEN 0 ELSE 1 + Max(ks)

\* re.split(r',\s*(?![^(]*\))', s): the text between the successive leftmost matches.
RECURSIVE ReSplitCommas(_)
ReSplitCommas(s) ==
    LET at == {i \in 1..Len(s) : CommaMatchLen(s, i) # 0}
    IN IF at = {} THEN <<s>>
       ELSE LET i == Min(at)
            IN <<SubSeq(s, 1, i - 1)>> \o ReSplitCommas(Drop(s, i - 1 + CommaMatchLen(s, i)))

\* re.match(r'^\s*([a-zA-Z0-9+\-\.]+)', s): Some(group 1), None when no match.
ReMatchName(s) ==
    LET ws == RunLen(s, 1, Whitespace)
        n  == RunLen(s, ws + 1, NameChars)
    IN IF n = 0 THEN None ELSE Some(SubSeq(s, ws + 1, ws + n))

(***************************************************************************)
(* DependencyResolver._parse_depends                                       *)
(***************************************************************************)
\* AddAlternative without the test `package_name not in dependencies`.
AddAlternative_NoDedup(deps, alt) ==
    LET package_match == ReMatchName(Strip(alt))
    IN IF package_match # None THEN Append(deps, package_match[1]) ELSE deps

\* Lines 139-142: the body of the loop over the alternatives, for one alternative.
AddAlternative(deps, alt) ==
    LET package_match == ReMatchName(Strip(alt))
    IN IF package_match # None /\ ~InList(package_match[1], deps)
       THEN Append(deps, package_match[1])
       ELSE deps

\* AddAlternatives taking only the first alternative of the group.
AddAlternatives_FirstOnly(deps, alternatives) ==
    IF alternatives = <<>> THEN deps ELSE AddAlternative(deps, Head(alternatives))

\* Lines 137-142: for alt in alternatives.
RECURSIVE AddAlternatives(_, _)
AddAlternatives(deps, alternatives) ==
    IF alternatives = <<>> THEN deps
    ELSE AddAlternatives(AddAlternative(deps, Head(alternatives)), Tail(alternatives))

\* Lines 135-142: for part in parts.
RECURSIVE AddParts(_, _)
AddParts(deps, parts) ==
    IF parts = <<>> THEN deps
    ELSE AddParts(AddAlternatives(deps, Split(Head(parts), <<"|">>)), Tail(parts))

\* Line 133: parts = re.split(...)
CommaGroups(content) == ReSplitCommas(content)

\* Lines 127-144; lines 130-131 are the early return on an empty expression.
_parse_depends(content) ==
    IF content = <<>> THEN <<>>
    ELSE AddParts(<<>>, CommaGroups(content))

(***************************************************************************)
(* DependencyResolver._find_package_info                                   *)
(***************************************************************************)
NL == <<"\n">>
PackageKey == <<"Package", ":", " ">>
VersionKey == <<"Version", ":">>
DependsKey == <<"Depends", ":">>

\* Line 108: the lines of the block that start with 'Version:'.
VersionLines(block) ==
    SelectSeq(Split(block, NL), LAMBDA line : StartsWith(line, VersionKey))

\* Line 110: version_lines[0].replace('Version:', '').strip()
ActualVersion(version_lines) == Strip(Replace(version_lines[1], VersionKey))

\* BlockMatches without the test `if version_lines`: a block with no Version
\* line is compared as if its version were empty.
BlockMatches_NoVersionGuard(block, package_name, package_version) ==
    /\ Contains(block, PackageKey \o package_name)
    /\ LET version_lines == VersionLines(block)
           actual_version == IF version_lines = <<>> THEN <<>>
                             ELSE ActualVersion(version_lines)
       IN \/ actual_version = package_version
          \/ Contains(actual_version, package_version)

\* Lines 107-111: the three nested conditions under which the block is returned.
BlockMatches(block, package_name, package_version) ==
    /\ Contains(block, PackageKey \o package_name)
    /\ LET version_lines == VersionLines(block)
       IN /\ version_lines # <<>>
          /\ LET actual_version == ActualVersion(version_lines)
             IN \/ actual_version = package_version
                \/ Contains(actual_version, package_version)

\* Lines 106-114: for package_block in packages: ... return package_block; return None
RECURSIVE FirstMatch(_, _, _)
FirstMatch(packages, package_name, package_version) ==
    IF packages = <<>> THEN None
    ELSE IF BlockMatches(Head(packages), package_name, package_version)
         THEN Some(Head(packages))
         ELSE FirstMatch(Tail(packages), package_name, package_version)

\* Line 104: packages = packages_content.split('\n\n')
Stanzas(content) == Split(content, NL \o NL)

\* Lines 103-114.
_find_package_info(content, package_name, package_version) ==
    FirstMatch(Stanzas(content), package_name, package_version)

(***************************************************************************)
(* DependencyResolver._extract_dependencies                                *)
(***************************************************************************)
\* Lines 119-120: the lines of package_info that start with 'Depends:'; the loop
\* breaks at the first of them.
DependsLines(info) ==
    SelectSeq(Split(info, NL), LAMBDA line : StartsWith(line, DependsKey))

\* Line 121: line.replace('Depends:', '').strip()
DependsContent(line) == Strip(Replace(line, DependsKey))

(***************************************************************************)
(* Inputs                                                                  *)
(***************************************************************************)
RECURSIVE JoinWith(_, _)
JoinWith(texts, sep) ==
    IF texts = <<>> THEN <<>>
    ELSE IF Len(texts) = 1 THEN texts[1]
    ELSE texts[1] \o sep \o JoinWith(Tail(texts), sep)

SeqsUpTo(S, n) == UNION {[1..k -> S] : k \in 0..n}

\* Depends expressions, token by token.
DepAlphabet == {"x", "y", ",", "|", "(", ")", "[", "]", " "}
DepStrings == SeqsUpTo(DepAlphabet, MaxLen)

\* Lines of a stanza.
PkgX      == PackageKey \o <<"x">>
PkgXY     == PackageKey \o <<"x", "y">>
PkgY      == PackageKey \o <<"y">>
Ver1      == VersionKey \o <<" ", "1">>
Ver12     == VersionKey \o <<" ", "1", "2">>
Ver2      == VersionKey \o <<" ", "2">>
VerTwice  == VersionKey \o <<" ", "1">> \o VersionKey \o <<"2">>
DepYX     == DependsKey \o <<" ", "y", ",", " ", "x">>
DepAlt    == DependsKey \o <<" ", "x", " ", "(", "1", ",", "2", ")", " ", "|", " ", "y">>
DepEmpty  == DependsKey
DepBlank  == DependsKey \o <<" ", " ">>
DepTwice  == DependsKey \o <<" ", "x", ",", " ">> \o DependsKey \o <<"y">>
PreDep    == <<"Pre", "-">> \o DependsKey \o <<" ", "y">>
Indented  == <<" ">> \o DependsKey \o <<" ", "x">>

\* Index texts for _find_package_info: up to MaxStanzas stanzas joined by a blank
\* line, each an optional Package line followed by zero to two Version lines.
FindStanzas ==
    {JoinWith(p \o v, NL) :
        p \in {<<>>, <<PkgX>>, <<PkgXY>>, <<PkgY>>},
        v \in {<<>>, <<Ver1>>, <<Ver12>>, <<VerTwice>>, <<Ver2, Ver1>>}}
FindIndexes == {JoinWith(ss, NL \o NL) : ss \in SeqsUpTo(FindStanzas, MaxStanzas)}
FindRequests ==
    [package_name : {<<"x">>}, package_version : {<<"1">>, <<"1", "2">>, <<>>}]

\* Stanzas for _extract_dependencies: a header and up to MaxDepLines more lines.
DepLinePool == {DepYX, DepAlt, DepEmpty, DepBlank, DepTwice, PreDep, Indented}
ExtractStanzas ==
    {JoinWith(<<PkgX, Ver1>> \o ls, NL) : ls \in SeqsUpTo(DepLinePool, MaxDepLines)}

\* Index texts served to get_package_dependencies.
ResolveStanzas ==
    {JoinWith(ls, NL) :
        ls \in {<<>>, <<PkgX, Ver1>>, <<PkgX, Ver1, DepYX>>, <<PkgX, Ver12, DepBlank>>,
                <<PkgX, DepYX>>, <<PkgXY, Ver12, DepAlt>>, <<PkgY, Ver1, DepYX>>}}
ResolveIndexes == {JoinWith(ss, NL \o NL) : ss \in SeqsUpTo(ResolveStanzas, MaxStanzas)}
ResolveRequests == [package_name : {<<"x">>}, package_version : {<<"1">>, <<"1", "2">>}]

\* What the mirror does with the one GET: a body that decompresses and decodes,
\* or one of the failures of urlopen, gzip.decompress and bytes.decode.
Faults == {"urlopen", "gzip", "decode"}
NetResponses ==
    [fault : {"none"}, body : ResolveIndexes] \cup [fault : Faults, body : {<<>>}]

(***************************************************************************)
(* DependencyResolver.get_package_dependencies, step by step               *)
(***************************************************************************)
\* `not package_info`
Falsy(opt) == opt = None \/ opt = Some(<<>>)

\* Lines 77, 86-98: the download succeeds.
DownloadOk ==
    /\ pc = "download"
    /\ net.fault = "none"
    /\ fetches' = fetches + 1
    /\ trace' = Append(trace, "fetch")
    /\ packages_content' = Some(net.body)
    /\ pc' = "find"
    /\ UNCHANGED <<config, net, package_info, depends_content, dependencies,
                   returned, raised>>

\* DownloadFail that tries the download once more before giving up.
DownloadFail_Retry ==
    /\ pc = "download"
    /\ net.fault # "none"
    /\ fetches' = fetches + 1
    /\ trace' = Append(trace, "fetch")
    /\ IF fetches = 0
       THEN pc' = "download" /\ raised' = raised
       ELSE pc' = "done" /\ raised' = "RepositoryError"
    /\ UNCHANGED <<config, net, packages_content, package_info, depends_content,
                   dependencies, returned>>

\* Lines 77, 100-101: any exception of the download becomes RepositoryError,
\* which get_package_dependencies does not catch.
DownloadFail ==
    /\ pc = "download"
    /\ net.fault # "none"
    /\ fetches' = fetches + 1
    /\ trace' = Append(trace, "fetch")
    /\ raised' = "RepositoryError"
    /\ pc' = "done"
    /\ UNCHANGED <<config, net, packages_content, package_info, depends_content,
                   dependencies, returned>>

\* Line 78.
FindPackageInfo ==
    /\ pc = "find"
    /\ package_info' = _find_package_info(packages_content[1], config.package_name,
                                         config.package_version)
    /\ trace' = Append(trace, "find")
    /\ pc' = "check"
    /\ UNCHANGED <<config, net, packages_content, depends_content, dependencies,
                   returned, raised, fetches>>

\* RaiseNotFound that answers an absent stanza with an empty list.
RaiseNotFound_EmptyList ==
    /\ pc = "check"
    /\ Falsy(package_info)
    /\ returned' = Some(<<>>)
    /\ pc' = "done"
    /\ UNCHANGED <<config, net, packages_content, package_info, depends_content,
                   dependencies, raised, fetches, trace>>

\* Lines 80-81.
RaiseNotFound ==
    /\ pc = "check"
    /\ Falsy(package_info)
    /\ raised' = "PackageNotFoundError"
    /\ pc' = "done"
    /\ UNCHANGED <<config, net, packages_content, package_info, depends_content,
                   dependencies, returned, fetches, trace>>

\* Lines 80, 83: the stanza was found, _extract_dependencies is called.
CallExtract ==
    /\ pc = "check"
    /\ ~Falsy(package_info)
    /\ pc' = "extract"
    /\ UNCHANGED <<config, net, packages_content, package_info, depends_content,
                   dependencies, returned, raised, fetches, trace>>

\* ExtractDependencies that treats a stanza without a Depends line as an error.
ExtractDependencies_NoLineIsError ==
    /\ pc = "extract"
    /\ trace' = Append(trace, "extract")
    /\ LET lines == DependsLines(package_info[1])
       IN \/ /\ lines = <<>>
             /\ depends_content' = depends_content
             /\ dependencies' = dependencies
             /\ raised' = "PackageNotFoundError"
             /\ pc' = "done"
          \/ /\ lines # <<>>
             /\ depends_content' = Some(DependsContent(lines[1]))
             /\ dependencies' = Some(<<>>)
             /\ raised' = raised
             /\ pc' = "parse"
    /\ UNCHANGED <<config, net, packages_content, package_info, returned, fetches>>

\* Lines 116-125 up to the call of _parse_depends: without a Depends line the
\* loop ends and the initial [] is returned.
ExtractDependencies ==
    /\ pc = "extract"
    /\ trace' = Append(trace, "extract")
    /\ dependencies' = Some(<<>>)
    /\ LET lines == DependsLines(package_info[1])
       IN \/ /\ lines = <<>>
             /\ depends_content' = depends_content
             /\ pc' = "return"
          \/ /\ lines # <<>>
             /\ depends_content' = Some(DependsContent(lines[1]))
             /\ pc' = "parse"
    /\ UNCHANGED <<config, net, packages_content, package_info, returned, raised,
                   fetches>>

\* Line 122: dependencies = self._parse_depends(depends_content); break
ParseDepends ==
    /\ pc = "parse"
    /\ dependencies' = Some(_parse_depends(depends_content[1]))
    /\ trace' = Append(trace, "parse")
    /\ pc' = "return"
    /\ UNCHANGED <<config, net, packages_content, package_info, depends_content,
                   returned, raised, fetches>>

\* Lines 125, 83-84: return dependencies.
Return ==
    /\ pc = "return"
    /\ returned' = dependencies
    /\ pc' = "done"
    /\ UNCHANGED <<config, net, packages_content, package_info, depends_content,
                   dependencies, raised, fetches, trace>>

\* Nothing fetched, found, extracted, returned or raised yet.
Fresh ==
    /\ packages_content = None
    /\ package_info = None
    /\ depends_content = None
    /\ dependencies = None
    /\ returned = None
    /\ raised = "none"
    /\ fetches = 0
    /\ trace = <<>>

(***************************************************************************)
(* Specifications                                                          *)
(***************************************************************************)
\* One call of get_package_dependencies.
Init ==
    /\ Fresh
    /\ pc = "download"
    /\ config \in ResolveRequests
    /\ net \in NetResponses

Next ==
    \/ DownloadOk
    \/ DownloadFail
    \/ FindPackageInfo
    \/ RaiseNotFound
    \/ CallExtract
    \/ ExtractDependencies
    \/ ParseDepends
    \/ Return

Spec == Init /\ [][Next]_vars

NoNet == [fault |-> "none", body |-> <<>>]

\* _parse_depends called on its own with every bounded Depends expression.
InitParse ==
    /\ pc = "parse"
    /\ config = [package_name |-> <<"x">>, package_version |-> <<"1">>]
    /\ net = NoNet
    /\ packages_content = None
    /\ package_info = None
    /\ depends_content \in {Some(s) : s \in DepStrings}
    /\ dependencies = None
    /\ returned = None
    /\ raised = "none"
    /\ fetches = 0
    /\ trace = <<>>

NextParse == ParseDepends

SpecParse == InitParse /\ [][NextParse]_vars

\* _find_package_info called on its own with every bounded index and request.
InitFind ==
    /\ pc = "find"
    /\ config \in FindRequests
    /\ net = NoNet
    /\ packages_content \in {Some(t) : t \in FindIndexes}
    /\ package_info = None
    /\ depends_content = None
    /\ dependencies = None
    /\ returned = None
    /\ raised = "none"
    /\ fetches = 0
    /\ trace = <<>>

NextFind == FindPackageInfo

SpecFind == InitFind /\ [][NextFind]_vars

\* _extract_dependencies called on its own with every bounded stanza.
InitExtract ==
    /\ pc = "extract"
    /\ config = [package_name |-> <<"x">>, package_version |-> <<"1">>]
    /\ net = NoNet
    /\ packages_content = None
    /\ package_info \in {Some(b) : b \in ExtractStanzas}
    /\ depends_content = None
    /\ dependencies = None
    /\ returned = None
    /\ raised = "none"
    /\ fetches = 0
    /\ trace = <<>>

NextExtract ==
    \/ ExtractDependencies
    \/ ParseDepends
    \/ Return

SpecExtract == InitExtract /\ [][NextExtract]_vars

(***************************************************************************)
(* Notions of the specification, stated without the code's loops           *)
(***************************************************************************)
RECURSIVE Flatten(_)
Flatten(ss) == IF ss = <<>> THEN <<>> ELSE Head(ss) \o Flatten(Tail(ss))

NoDuplicates(list) == \A i, j \in 1..Len(list) : list[i] = list[j] => i = j

FirstIndex(list, x) == Min({i \in 1..Len(list) : list[i] = x})

\* Every '|'-alternative of every comma-group the code obtains, left to right.
Alternatives(content) ==
    LET groups == CommaGroups(content)
    IN Flatten([g \in 1..Len(groups) |-> Split(groups[g], <<"|">>)])

\* The longest prefix of the trimmed alternative made of name characters.
LeadingName(alt) ==
    LET t == Strip(alt)
    IN SubSeq(t, 1, Max({k \in 0..Len(t) : \A i \in 1..k : t[i] \in NameChars}))

\* The leading names of the alternatives that have one, duplicates included.
RawNames(content) ==
    LET alts == Alternatives(content)
    IN SelectSeq([j \in 1..Len(alts) |-> LeadingName(alts[j])], LAMBDA n : n # <<>>)

\* The elements of the list at their first occurrence only, in order.
FirstSeen(list) ==
    LET keep[k \in 0..Len(list)] ==
            IF k = 0 THEN <<>>
            ELSE IF \E i \in 1..(k - 1) : list[i] = list[k] THEN keep[k - 1]
            ELSE Append(keep[k - 1], list[k])
    IN keep[Len(list)]

\* The comma-groups of a scanner that tracks the parenthesis depth and splits at
\* a comma (and the whitespace after it) only at depth 0.
RECURSIVE DepthSplit(_, _, _)
DepthSplit(s, depth, group) ==
    IF s = <<>> THEN <<group>>
    ELSE IF Head(s) = "," /\ depth = 0
         THEN <<group>> \o DepthSplit(LStrip(Tail(s)), 0, <<>>)
         ELSE DepthSplit(Tail(s),
                         IF Head(s) = "(" THEN depth + 1
                         ELSE IF Head(s) = ")" /\ depth > 0 THEN depth - 1
                         ELSE depth,
                         Append(group, Head(s)))

\* The value of a 'Key: value' line: the text after the key, trimmed.
FieldValue(line, key) == Strip(Drop(line, Len(key)))

\* The lines of the block that start with the key.
LinesWith(block, key) == SelectSeq(Split(block, NL), LAMBDA line : StartsWith(line, key))

HasVersionLine(block) == \E line \in {Split(block, NL)[i] : i \in 1..Len(Split(block, NL))} :
                             StartsWith(line, VersionKey)

\* The stanza contains 'Package: {name}' and the value of its first Version line
\* equals the requested version or contains it.
StanzaSatisfies(block, package_name, package_version) ==
    /\ Contains(block, PackageKey \o package_name)
    /\ LinesWith(block, VersionKey) # <<>>
    /\ LET value == FieldValue(LinesWith(block, VersionKey)[1], VersionKey)
       IN value = package_version \/ Contains(value, package_version)

\* The stanza declares no dependencies: no Depends line, or an empty one.
DeclaresNothing(block) ==
    \/ LinesWith(block, DependsKey) = <<>>
    \/ FieldValue(LinesWith(block, DependsKey)[1], DependsKey) = <<>>

StageRank(stage) ==
    CASE stage = "fetch" -> 1 [] stage = "find" -> 2 [] stage = "extract" -> 3
      [] stage = "parse" -> 4

(***************************************************************************)
(* Claims                                                                  *)
(***************************************************************************)
\* C1: the list _parse_depends returns holds no name twice, and its names stand
\* in the order of their first occurrence among the leading names of the
\* alternatives read left to right; a name of two groups appears once, at its
\* first occurrence.
C1_NoDuplicatesFirstSeenOrder ==
    pc = "return" =>
        LET deps == dependencies[1]
            raw  == RawNames(depends_content[1])
        IN /\ NoDuplicates(deps)
           /\ \A k \in 1..Len(deps) : InList(deps[k], raw)
           /\ \A k, l \in 1..Len(deps) :
                  k < l => FirstIndex(raw, deps[k]) < FirstIndex(raw, deps[l])

\* "x,y,x": x occurs in the first and in the third group and is returned once.
C1_Witness ==
    /\ pc = "return"
    /\ depends_content = Some(<<"x", ",", "y", ",", "x">>)
    /\ dependencies = Some(<< <<"x">>, <<"y">> >>)

\* C2: the comma-groups _parse_depends obtains are those of a scanner that splits
\* only at the commas seen at parenthesis depth 0.
C2_GroupsAreDepthZeroGroups ==
    pc = "return" =>
        CommaGroups(depends_content[1]) = DepthSplit(depends_content[1], 0, <<>>)

\* C3: _parse_depends returns the leading names of all alternatives of all
\* comma-groups, each at its first occurrence only; an alternative without a
\* leading name adds nothing.
C3_AllAlternativesFirstSeen ==
    pc = "return" => dependencies = Some(FirstSeen(RawNames(depends_content[1])))

\* "x()|y": both alternatives are returned, the constraint after x is dropped.
C3_Witness ==
    /\ pc = "return"
    /\ depends_content = Some(<<"x", "(", ")", "|", "y">>)
    /\ dependencies = Some(<< <<"x">>, <<"y">> >>)

\* C4: _find_package_info returns the first stanza that contains
\* 'Package: {name}' and whose first Version line has a value (the text after
\* 'Version:', trimmed) equal to or containing the requested version, and None
\* exactly when there is no such stanza.
C4_FirstSatisfyingStanza ==
    pc = "check" =>
        LET blocks == Stanzas(packages_content[1])
            hits   == {i \in 1..Len(blocks) :
                          StanzaSatisfies(blocks[i], config.package_name,
                                          config.package_version)}
        IN IF hits = {} THEN package_info = None
           ELSE package_info = Some(blocks[Min(hits)])

\* C5: a stanza returned by _find_package_info has a Package field whose value
\* is the requested name.
C5_ReturnedStanzaHasRequestedName ==
    pc = "check" /\ package_info # None =>
        /\ LinesWith(package_info[1], <<"Package", ":">>) # <<>>
        /\ FieldValue(LinesWith(package_info[1], <<"Package", ":">>)[1], <<"Package", ":">>)
               = config.package_name

\* C6: after a successful fetch the call ends in PackageNotFoundError exactly
\* when no stanza matches (the matcher returned None); then nothing is returned
\* and neither the extractor nor the parser has run.
C6_NotFoundIffNoMatch ==
    pc = "done" /\ net.fault = "none" =>
        LET blocks  == Stanzas(net.body)
            matched == \E i \in 1..Len(blocks) :
                           BlockMatches(blocks[i], config.package_name,
                                        config.package_version)
        IN /\ (raised = "PackageNotFoundError") <=> ~matched
           /\ (raised = "PackageNotFoundError") <=> (package_info = None)
           /\ matched => raised = "none" /\ returned # None
           /\ raised = "PackageNotFoundError" =>
                  /\ returned = None
                  /\ dependencies = None
                  /\ depends_content = None
                  /\ trace = <<"fetch", "find">>

\* The index holds stanzas of package x, none of version 12.
C6_Witness ==
    /\ pc = "done"
    /\ raised = "PackageNotFoundError"
    /\ config.package_version = <<"1", "2">>
    /\ packages_content = Some(JoinWith(<<PkgX, Ver1, DepYX>>, NL))

\* C7: the stages run in the order fetch, find, extract, parse, with one fetch
\* at most; a failed fetch ends the call in RepositoryError with no later stage
\* and no list; nothing is returned or raised before the end of the call, and
\* the call ends in exactly one of a list, RepositoryError and
\* PackageNotFoundError.
C7_StagesInOrderOneOutcome ==
    /\ fetches <= 1
    /\ \A i, j \in 1..Len(trace) : i < j => StageRank(trace[i]) < StageRank(trace[j])
    /\ trace # <<>> => trace[1] = "fetch"
    /\ pc # "download" => fetches = 1
    /\ net.fault # "none" /\ pc # "download" =>
           /\ pc = "done"
           /\ raised = "RepositoryError"
           /\ trace = <<"fetch">>
           /\ packages_content = None
           /\ dependencies = None
           /\ returned = None
    /\ raised = "RepositoryError" => net.fault # "none"
    /\ pc # "done" => raised = "none" /\ returned = None
    /\ pc = "done" =>
           \/ raised = "none" /\ returned # None
           \/ raised \in {"RepositoryError", "PackageNotFoundError"} /\ returned = None

\* The body of the response is not gzip data.
C7_Witness ==
    /\ pc = "done"
    /\ net.fault = "gzip"
    /\ raised = "RepositoryError"
    /\ fetches = 1

\* C8: when the matched stanza has no Depends line, or an empty one, the call
\* returns the empty list and raises nothing.
C8_NoDependsIsEmptyList ==
    pc = "done" /\ package_info # None /\ DeclaresNothing(package_info[1]) =>
        returned = Some(<<>>) /\ raised = "none"

\* The matched stanza is 'Package: x', 'Version: 1' and nothing else.
C8_Witness ==
    /\ pc = "done"
    /\ package_info = Some(JoinWith(<<PkgX, Ver1>>, NL))
    /\ returned = Some(<<>>)
    /\ raised = "none"

\* C9: a stanza without a Version line is never returned, whatever the request,
\* and the scan goes on past it: the result is that of the same scan over the
\* stanzas that have a Version line.
C9_VersionlessStanzaSkipped ==
    pc = "check" =>
        /\ package_info # None => HasVersionLine(package_info[1])
        /\ package_info =
               FirstMatch(SelectSeq(Stanzas(packages_content[1]), HasVersionLine),
                          config.package_name, config.package_version)

\* 'Package: x' alone, then 'Package: x' with 'Version: 1', requested with an
\* empty version: the second stanza is returned.
C9_Witness ==
    /\ pc = "check"
    /\ config.package_version = <<>>
    /\ packages_content = Some(JoinWith(<<PkgX, JoinWith(<<PkgX, Ver1>>, NL)>>, NL \o NL))
    /\ package_info = Some(JoinWith(<<PkgX, Ver1>>, NL))

\* C10: the content handed to the parser is the text after the prefix of the
\* first line that starts with 'Depends:', trimmed and otherwise unaltered.
C10_ContentIsFirstDependsValue ==
    pc = "parse" =>
        depends_content =
            Some(FieldValue(LinesWith(package_info[1], DependsKey)[1], DependsKey))

====
